---- MODULE Spec2Model ----
(***************************************************************************)
(* py4cytoscape: identifier translation (node/edge name <-> SUID), input   *)
(* validators and style dependency accessors, modelled from                *)
(* py4cytoscape_utils.py and style_dependencies.py.                        *)
(*                                                                         *)
(* Python values are tagged tuples, so that a str, an int, a list and None *)
(* are distinct values that never compare equal:                           *)
(*   <<"None">>   <<"str", s>>   <<"int", n>>   <<"list", seq>>            *)
(* The outcome of a call is <<"return", value>> or <<"raise", exception>>. *)
(***************************************************************************)
EXTENDS Integers, Sequences, FiniteSets, TLC

VARIABLES network, input, remote, log, call, prev

vars == <<network, input, remote, log, call, prev>>

\* ------------------------------------------------------------------------
\* Bounds of the model
\* ------------------------------------------------------------------------
MaxSuid == 2        \* SUIDs are 1..MaxSuid, so a table has at most MaxSuid rows
MaxLen == 2         \* length of an identifier list passed to a translator

\* ------------------------------------------------------------------------
\* Python values
\* ------------------------------------------------------------------------
None == <<"None">>
PyStr(s) == <<"str", s>>
PyInt(n) == <<"int", n>>
PyList(s) == <<"list", s>>

Return(v) == <<"return", v>>
Raise(e) == <<"raise", e>>

IsNone(v) == v[1] = "None"
IsStr(v) == v[1] = "str"
IsInt(v) == v[1] = "int"
IsList(v) == v[1] = "list"

\* x in s, for a Python list, a pandas Index or a numpy array s
Contains(s, x) == \E i \in 1..Len(s) : s[i] = x

SeqToSet(s) == {s[i] : i \in 1..Len(s)}

\* ------------------------------------------------------------------------
\* The table collaborator: a table is a sequence of rows, each binding a
\* SUID (the index of the data frame) to a name (its 'name' column).
\* ------------------------------------------------------------------------
Suids == 1..MaxSuid
NodeNames == {"YDR277C", "AXD206W"}
EdgeNames == {"YDR277C (pp) YDL194W", "YDR277C (pp) AXD206W"}
BogusName == "bogus"

\* df.index
df_index(df) == [i \in 1..Len(df) |-> PyInt(df[i].suid)]

\* df['name'].values
df_name_values(df) == [i \in 1..Len(df) |-> PyStr(df[i].name)]

\* list(df[df.name.eq(name)].index.values): the SUIDs of the rows whose name
\* equals the given value, in table order
RECURSIVE rows_named(_, _)
rows_named(df, name) ==
    IF Len(df) = 0 THEN <<>>
    ELSE IF PyStr(Head(df).name) = name
         THEN <<PyInt(Head(df).suid)>> \o rows_named(Tail(df), name)
         ELSE rows_named(Tail(df), name)

\* a plausible slip: always the first row
list_index_first(s, x) == IF Contains(s, x) THEN 1 ELSE 0

\* all_suids_list.index(suid): position of the first equal element, 0 when
\* list.index raises ValueError
list_index(s, x) ==
    IF Contains(s, x) THEN CHOOSE i \in 1..Len(s) : s[i] = x /\ \A j \in 1..(i-1) : s[j] # x
    ELSE 0

\* a plausible slip: the test inverted
all_present_inverted(test_present) == Contains(test_present, FALSE)

\* not False in test_present: every element is already in the target domain
all_present(test_present) == ~ Contains(test_present, FALSE)

\* a plausible slip: the check for unmatched names left out
any_unmatched_skipped(suids) == FALSE

\* True in [True if len(x) == 0 else False for x in suids]
any_unmatched(suids) == Contains([i \in 1..Len(suids) |-> Len(suids[i]) = 0], TRUE)

\* a plausible slip: an arbitrary single pick for an ambiguous name
scalar_or_list_first(x) == x[1]

\* x[0] if len(x) == 1 else x
scalar_or_list(x) == IF Len(x) = 1 THEN x[1] ELSE PyList(x)

\* ------------------------------------------------------------------------
\* Validators.  A str to validate is the sequence of its characters; a float
\* is kept in halves, so that 0.5 and 255.5 are values: PyFloat(h) is h/2.
\* ------------------------------------------------------------------------
PyFloat(h) == <<"float", h>>
IsFloat(v) == v[1] = "float"

\* isinstance(v, float) or isinstance(v, int)
is_number(v) == IsFloat(v) \/ IsInt(v)

\* twice the value of a number
Halves(v) == IF IsInt(v) THEN 2 * v[2] ELSE v[2]

\* the outcome of a loop over per-element outcomes: the first exception
\* raised, or None returned when the loop runs to its end
loop_outcome(r) ==
    IF \A i \in 1..Len(r) : r[i] = "ok" THEN Return(None)
    ELSE Raise(r[CHOOSE i \in 1..Len(r) : r[i] # "ok" /\ \A j \in 1..(i-1) : r[j] = "ok"])

\* if not isinstance(x, list): x = [x]
as_list(x) == IF IsList(x) THEN x[2] ELSE <<x>>

\* not color.startswith('#') or len(color) != 7
check_hex_color(color) ==
    IF ~ IsStr(color) THEN "AttributeError"     \* no startswith on a non-str
    ELSE IF Len(color[2]) = 0 \/ Head(color[2]) # "#" \/ Len(color[2]) # 7 THEN "CyError"
    ELSE "ok"

verify_hex_colors(colors) ==
    IF IsNone(colors) THEN Return(None)
    ELSE LET cs == as_list(colors)
         IN  loop_outcome([i \in 1..Len(cs) |-> check_hex_color(cs[i])])

\* a plausible slip: the upper limit excluded
check_opacity_exclusive(opacity) ==
    IF ~ is_number(opacity) \/ Halves(opacity) < 0 \/ Halves(opacity) >= 2 * 255
    THEN "CyError" ELSE "ok"

\* not (isinstance(opacity, float) or isinstance(opacity, int)) or opacity < 0 or opacity > 255
check_opacity(opacity) ==
    IF ~ is_number(opacity) \/ Halves(opacity) < 0 \/ Halves(opacity) > 2 * 255
    THEN "CyError" ELSE "ok"

\* a plausible slip: the guard for None left out
verify_opacities_unguarded(opacities) ==
    LET os == as_list(opacities)
    IN  loop_outcome([i \in 1..Len(os) |-> check_opacity(os[i])])

verify_opacities(opacities) ==
    IF IsNone(opacities) THEN Return(None)
    ELSE LET os == as_list(opacities)
         IN  loop_outcome([i \in 1..Len(os) |-> check_opacity(os[i])])

\* not isinstance(size, float) and not isinstance(size, int)
check_dimension(size) == IF ~ IsFloat(size) /\ ~ IsInt(size) THEN "CyError" ELSE "ok"

verify_dimensions(dimension, sizes) ==
    IF IsNone(sizes) THEN Return(None)
    ELSE LET ss == as_list(sizes)
         IN  loop_outcome([i \in 1..Len(ss) |-> check_dimension(ss[i])])

verify_slot(slot) ==
    IF ~ is_number(slot) \/ Halves(slot) < 2 * 1 \/ Halves(slot) > 2 * 9
    THEN Raise("CyError")
    ELSE Return(None)

\* ------------------------------------------------------------------------
\* Identifier translators
\* ------------------------------------------------------------------------
node_name_to_node_suid(net, arg) ==
    IF IsNone(arg) THEN Return(None)
    ELSE IF IsInt(arg) THEN Raise("TypeError")   \* iterating over an int
    ELSE
      LET node_names == IF IsStr(arg) THEN <<arg>> ELSE arg[2]
          df == net.node
          all_suids == df_index(df)
          test_present == [i \in 1..Len(node_names) |-> Contains(all_suids, node_names[i])]
      IN  IF all_present(test_present) THEN Return(PyList(node_names))
          ELSE
            LET node_suids == [i \in 1..Len(node_names) |-> rows_named(df, node_names[i])]
            IN  IF any_unmatched(node_suids) THEN Raise("CyError")
                ELSE Return(PyList([i \in 1..Len(node_suids) |-> scalar_or_list(node_suids[i])]))

node_suid_to_node_name(net, arg) ==
    IF IsNone(arg) THEN Return(None)
    ELSE IF IsInt(arg) THEN Raise("TypeError")   \* iterating over an int
    ELSE
      LET node_suids == IF IsStr(arg) THEN <<arg>> ELSE arg[2]
          df == net.node
          all_names == df_name_values(df)
          test_present == [i \in 1..Len(node_suids) |-> Contains(all_names, node_suids[i])]
      IN  IF all_present(test_present) THEN Return(PyList(node_suids))
          ELSE
            LET all_suids_list == df_index(df)
                pos == [i \in 1..Len(node_suids) |-> list_index(all_suids_list, node_suids[i])]
            IN  IF Contains(pos, 0) THEN Raise("CyError")
                ELSE Return(PyList([i \in 1..Len(node_suids) |-> all_names[pos[i]]]))

edge_name_to_edge_suid(net, arg) ==
    IF IsNone(arg) THEN Return(None)
    ELSE IF IsInt(arg) THEN Raise("TypeError")   \* iterating over an int
    ELSE
      LET edge_names == IF IsStr(arg) THEN <<arg>> ELSE arg[2]
          df == net.edge
          all_suids == df_index(df)
          test_present == [i \in 1..Len(edge_names) |-> Contains(all_suids, edge_names[i])]
      IN  IF all_present(test_present) THEN Return(PyList(edge_names))
          ELSE
            LET edge_suids == [i \in 1..Len(edge_names) |-> rows_named(df, edge_names[i])]
            IN  IF any_unmatched(edge_suids) THEN Raise("CyError")
                ELSE Return(PyList([i \in 1..Len(edge_suids) |-> scalar_or_list(edge_suids[i])]))

edge_suid_to_edge_name(net, arg) ==
    IF IsNone(arg) THEN Return(None)
    ELSE IF IsInt(arg) THEN Raise("TypeError")   \* iterating over an int
    ELSE
      LET edge_suids == IF IsStr(arg) THEN <<arg>> ELSE arg[2]
          df == net.edge
          all_names == df_name_values(df)
          test == [i \in 1..Len(edge_suids) |-> Contains(all_names, edge_suids[i])]
      IN  IF all_present(test) THEN Return(PyList(edge_suids))
          ELSE
            LET all_suids_list == df_index(df)
                pos == [i \in 1..Len(edge_suids) |-> list_index(all_suids_list, edge_suids[i])]
            IN  IF Contains(pos, 0) THEN Raise("CyError")
                ELSE Return(PyList([i \in 1..Len(edge_suids) |-> all_names[pos[i]]]))

\* ------------------------------------------------------------------------
\* Style dependencies.  The remote application owns, per endpoint and visual
\* style, one boolean flag per dependency name; a request is logged with the
\* endpoint it was sent to and whether the remote served it.
\* ------------------------------------------------------------------------
MaxDeps == 2        \* entries of a dependencies mapping passed to a setter

DEFAULT_BASE_URL == "http://127.0.0.1:1234/v1"
OtherBaseUrl == "http://otherhost:1234/v1"
BaseUrls == {DEFAULT_BASE_URL, OtherBaseUrl}

DependencyNames == {"arrowColorMatchesEdge", "nodeCustomGraphicsSizeSync", "nodeSizeLocked"}
StyleNames == {"default"}
BogusStyle == "galFiltered Style"

PyBool(b) == <<"bool", b>>

Request(verb, url, path, body, ok) ==
    [verb |-> verb, url |-> url, path |-> path, body |-> body, ok |-> ok]

\* styles.get_visual_style_names: the names of the styles the endpoint knows
get_visual_style_names(rem, base_url) == DOMAIN rem[base_url]

\* the style a dependencies path addresses
path_style(path) == path[2]

\* commands.cyrest_get on a dependencies path: the remote's list of records
cyrest_get(rem, path, base_url) ==
    LET flags == rem[base_url][path_style(path)]
        names == CHOOSE q \in [1..Cardinality(DOMAIN flags) -> DOMAIN flags] :
                    \A i, j \in DOMAIN q : i # j => q[i] # q[j]
    IN  [i \in DOMAIN names |->
            [visualPropertyDependency |-> names[i], enabled |-> PyBool(flags[names[i]])]]

\* the remote serves a dependencies path only for a style it knows
remote_serves(rem, path, base_url) == path_style(path) \in DOMAIN rem[base_url]

\* the remote reads an 'enabled' value as a boolean: a JSON boolean as it is,
\* the JSON string "true" as true and any other string as false
json_boolean(v) == IF v[1] = "bool" THEN v[2] ELSE v[2] = "true"

\* commands.cyrest_put on a dependencies path: the remote sets each flag the
\* body names, later records overriding earlier ones
RECURSIVE apply_records(_, _)
apply_records(flags, body) ==
    IF Len(body) = 0 THEN flags
    ELSE apply_records(
            [flags EXCEPT ![Head(body).visualPropertyDependency] =
                                json_boolean(Head(body).enabled)],
            Tail(body))

cyrest_put(rem, path, body, base_url) ==
    [rem EXCEPT ![base_url][path_style(path)] = apply_records(@, body)]

\* what the remote answers to a write and to the reapply-styles command
PutResponse == PyStr("")
ViewsResponse(command) == <<"dict", "views", command>>

\* a plausible slip: the check for a missing style left out
style_missing_skipped(style_name, names) == FALSE

\* style_name not in styles.get_visual_style_names(base_url=base_url)
style_missing(style_name, names) == style_name \notin names

\* 'styles/' + style_name + '/dependencies'
dependencies_path(style_name) == <<"styles", style_name, "dependencies">>

\* a plausible slip: base_url not passed on, the write goes to the default
write_url_default(base_url) == DEFAULT_BASE_URL

\* cyrest_put(..., base_url=base_url, ...): the endpoint of the write
write_url(base_url) == base_url

\* commands_post(...) without base_url: the endpoint of the reapply command
\* is the default of the parameter
reapply_url(base_url) == DEFAULT_BASE_URL

\* 'vizmap apply styles="' + style_name + '"'
apply_styles_command(style_name) == <<"vizmap apply styles", style_name>>

\* a plausible slip: only the first entry of the mapping is sent
build_dep_list_first(dependencies) ==
    [i \in 1..(IF Len(dependencies) = 0 THEN 0 ELSE 1) |->
        [visualPropertyDependency |-> dependencies[i][1], enabled |-> dependencies[i][2]]]

\* [{'visualPropertyDependency': dep, 'enabled': val} for dep, val in dependencies.items()]
build_dep_list(dependencies) ==
    [i \in 1..Len(dependencies) |->
        [visualPropertyDependency |-> dependencies[i][1], enabled |-> dependencies[i][2]]]

\* a plausible slip: every name mapped to the flag of the first record
dep_dict_first(res) ==
    [dep \in {res[i].visualPropertyDependency : i \in DOMAIN res} |-> res[1].enabled]

\* {dep['visualPropertyDependency']: dep['enabled'] for dep in res}: a later
\* record of the same name overrides an earlier one
dep_dict(res) ==
    [dep \in {res[i].visualPropertyDependency : i \in DOMAIN res} |->
        LET i == CHOOSE j \in DOMAIN res :
                    /\ res[j].visualPropertyDependency = dep
                    /\ \A k \in DOMAIN res :
                          res[k].visualPropertyDependency = dep => k <= j
        IN  res[i].enabled]

Outcome(ret, requests, rem) == [ret |-> ret, log |-> requests, remote |-> rem]

\* net says which of the call's requests the transport and the remote serve
get_style_dependencies(rem, style_name, base_url, net) ==
    LET lookup == Request("GET", base_url, <<"styles">>, None, net.lookup)
    IN  IF ~ net.lookup
        THEN Outcome(Raise("RequestException"), <<lookup>>, rem)
        ELSE IF style_missing(style_name, get_visual_style_names(rem, base_url))
        THEN Outcome(Raise("CyError"), <<lookup>>, rem)
        ELSE
          LET path == dependencies_path(style_name)
              served == net.read /\ remote_serves(rem, path, base_url)
              read == Request("GET", base_url, path, None, served)
          IN  IF ~ served
              THEN Outcome(Raise("RequestException"), <<lookup, read>>, rem)
              ELSE
                LET res == cyrest_get(rem, path, base_url)
                    dep_list == dep_dict(res)
                IN  Outcome(Return(<<"dict", dep_list>>), <<lookup, read>>, rem)

set_style_dependencies(rem, style_name, dependencies, base_url, net) ==
    LET lookup == Request("GET", base_url, <<"styles">>, None, net.lookup)
    IN  IF ~ net.lookup
        THEN Outcome(Raise("RequestException"), <<lookup>>, rem)
        ELSE IF style_missing(style_name, get_visual_style_names(rem, base_url))
        THEN Outcome(Raise("CyError"), <<lookup>>, rem)
        ELSE
          LET dep_list == build_dep_list(dependencies)
              path == dependencies_path(style_name)
              served == net.write /\ remote_serves(rem, path, write_url(base_url))
              write == Request("PUT", write_url(base_url), path, dep_list, served)
          IN  IF ~ served
              THEN Outcome(Raise("RequestException"), <<lookup, write>>, rem)
              ELSE
                LET rem2 == cyrest_put(rem, path, dep_list, write_url(base_url))
                    command == apply_styles_command(style_name)
                    reapply == Request("POST", reapply_url(base_url), command, None, net.reapply)
                IN  IF ~ net.reapply
                    THEN Outcome(Raise("RequestException"), <<lookup, write, reapply>>, rem2)
                    ELSE Outcome(Return(ViewsResponse(command)), <<lookup, write, reapply>>, rem2)

\* toggle = 'true' if new_state else 'false'
toggle(new_state) == PyStr(IF new_state THEN "true" ELSE "false")

match_arrow_color_to_edge(rem, new_state, style_name, base_url, net) ==
    set_style_dependencies(rem, style_name,
                           <<<<"arrowColorMatchesEdge", toggle(new_state)>>>>, base_url, net)

lock_node_dimensions(rem, new_state, style_name, base_url, net) ==
    set_style_dependencies(rem, style_name,
                           <<<<"nodeSizeLocked", toggle(new_state)>>>>, base_url, net)

sync_node_custom_graphics_size(rem, new_state, style_name, base_url, net) ==
    set_style_dependencies(rem, style_name,
                           <<<<"nodeCustomGraphicsSizeSync", toggle(new_state)>>>>, base_url, net)

\* ------------------------------------------------------------------------
\* State: the remote network's tables, the argument the caller holds and
\* the record of the last call (and of the call before it, when the caller
\* passed its result on)
\* ------------------------------------------------------------------------
NoCall == [fn |-> "none", arg |-> None, ret |-> Return(None)]

\* sequences over S of length at most n
SeqsUpTo(S, n) == UNION {[1..k -> S] : k \in 0..n}

\* tables: SUIDs unique, rows in any order
Tables(names) ==
    {t \in SeqsUpTo([suid : Suids, name : names], MaxSuid) :
        \A i, j \in 1..Len(t) : i # j => t[i].suid # t[j].suid}

\* a SUID is unique in the session: no node and edge share one
Networks ==
    {net \in [node : Tables(NodeNames), edge : Tables(EdgeNames)] :
        SeqToSet(df_index(net.node)) \cap SeqToSet(df_index(net.edge)) = {}}

\* identifiers a caller may pass: node and edge names, a name that is in no
\* table, and SUIDs
Idents == {PyStr(n) : n \in NodeNames \cup EdgeNames \cup {BogusName}}
            \cup {PyInt(s) : s \in Suids}

\* arguments of a translator: None, a scalar, or a list of identifiers
Args == {None} \cup Idents \cup {PyList(s) : s \in SeqsUpTo(Idents, MaxLen)}

\* the flags of a style as the remote creates it
DefaultFlags ==
    [dep \in DependencyNames |-> dep = "nodeCustomGraphicsSizeSync"]

\* each endpoint knows the styles of StyleNames
InitRemote == [url \in BaseUrls |-> [style \in StyleNames |-> DefaultFlags]]

EmptyNetwork == [node |-> <<>>, edge |-> <<>>]

XlateInit ==
    /\ network \in Networks
    /\ input \in Args
    /\ remote = InitRemote
    /\ log = <<>>
    /\ call = NoCall
    /\ prev = NoCall

Called(fn, ret) ==
    /\ call' = [fn |-> fn, arg |-> input, ret |-> ret]
    /\ prev' = NoCall
    /\ UNCHANGED <<network, input, remote, log>>

CallNodeNameToNodeSuid ==
    Called("node_name_to_node_suid", node_name_to_node_suid(network, input))

CallNodeSuidToNodeName ==
    Called("node_suid_to_node_name", node_suid_to_node_name(network, input))

CallEdgeNameToEdgeSuid ==
    Called("edge_name_to_edge_suid", edge_name_to_edge_suid(network, input))

CallEdgeSuidToEdgeName ==
    Called("edge_suid_to_edge_name", edge_suid_to_edge_name(network, input))

\* a list whose elements are all scalars (no nested SUID list)
IsFlatList(v) == IsList(v) /\ \A i \in 1..Len(v[2]) : ~ IsList(v[2][i])

\* the caller feeds the list returned by a name->SUID call to the SUID->name
\* translator of the same class
Chained(fn, ret) ==
    /\ call' = [fn |-> fn, arg |-> call.ret[2], ret |-> ret]
    /\ prev' = call
    /\ UNCHANGED <<network, input, remote, log>>

ThenNodeSuidToNodeName ==
    /\ call.fn = "node_name_to_node_suid"
    /\ prev.fn = "none"
    /\ call.ret[1] = "return" /\ IsFlatList(call.ret[2])
    /\ Chained("node_suid_to_node_name", node_suid_to_node_name(network, call.ret[2]))

ThenEdgeSuidToEdgeName ==
    /\ call.fn = "edge_name_to_edge_suid"
    /\ prev.fn = "none"
    /\ call.ret[1] = "return" /\ IsFlatList(call.ret[2])
    /\ Chained("edge_suid_to_edge_name", edge_suid_to_edge_name(network, call.ret[2]))

XlateNext ==
    \/ CallNodeNameToNodeSuid
    \/ CallNodeSuidToNodeName
    \/ CallEdgeNameToEdgeSuid
    \/ CallEdgeSuidToEdgeName
    \/ ThenNodeSuidToNodeName
    \/ ThenEdgeSuidToEdgeName

XlateSpec == XlateInit /\ [][XlateNext]_vars

\* ------------------------------------------------------------------------
\* Calls of the style dependency accessors.  A call is one step: its
\* requests are synchronous and nothing else runs in between.
\* ------------------------------------------------------------------------
\* dependencies mappings: ordered (as a dict is), keys unique
Dependencies ==
    {d \in SeqsUpTo(DependencyNames \X {PyBool(TRUE), PyBool(FALSE)}, MaxDeps) :
        \A i, j \in 1..Len(d) : i # j => d[i][1] # d[j][1]}

StyleNameArgs == StyleNames \cup {BogusStyle}

\* each request is served or fails; the first failure ends the call
GetNets ==
    {[lookup |-> TRUE, read |-> TRUE], [lookup |-> FALSE, read |-> TRUE],
     [lookup |-> TRUE, read |-> FALSE]}
SetNets ==
    {[lookup |-> TRUE, write |-> TRUE, reapply |-> TRUE],
     [lookup |-> FALSE, write |-> TRUE, reapply |-> TRUE],
     [lookup |-> TRUE, write |-> FALSE, reapply |-> TRUE],
     [lookup |-> TRUE, write |-> TRUE, reapply |-> FALSE]}

StyleInit ==
    /\ network = EmptyNetwork
    /\ input = None
    /\ remote = InitRemote
    /\ log = <<>>
    /\ call = NoCall
    /\ prev = NoCall

StyleCalled(fn, arg, out) ==
    /\ call.fn = "none"
    /\ call' = [fn |-> fn, arg |-> arg, ret |-> out.ret]
    /\ log' = out.log
    /\ remote' = out.remote
    /\ UNCHANGED <<network, input, prev>>

CallGetStyleDependencies ==
    \E style_name \in StyleNameArgs, base_url \in BaseUrls, net \in GetNets :
        StyleCalled("get_style_dependencies",
                    [style_name |-> style_name, base_url |-> base_url],
                    get_style_dependencies(remote, style_name, base_url, net))

CallSetStyleDependencies ==
    \E style_name \in StyleNameArgs, dependencies \in Dependencies,
       base_url \in BaseUrls, net \in SetNets :
        StyleCalled("set_style_dependencies",
                    [style_name |-> style_name, dependencies |-> dependencies,
                     base_url |-> base_url],
                    set_style_dependencies(remote, style_name, dependencies, base_url, net))

CallMatchArrowColorToEdge ==
    \E new_state \in BOOLEAN, style_name \in StyleNameArgs,
       base_url \in BaseUrls, net \in SetNets :
        StyleCalled("match_arrow_color_to_edge",
                    [new_state |-> new_state, style_name |-> style_name,
                     base_url |-> base_url],
                    match_arrow_color_to_edge(remote, new_state, style_name, base_url, net))

CallLockNodeDimensions ==
    \E new_state \in BOOLEAN, style_name \in StyleNameArgs,
       base_url \in BaseUrls, net \in SetNets :
        StyleCalled("lock_node_dimensions",
                    [new_state |-> new_state, style_name |-> style_name,
                     base_url |-> base_url],
                    lock_node_dimensions(remote, new_state, style_name, base_url, net))

CallSyncNodeCustomGraphicsSize ==
    \E new_state \in BOOLEAN, style_name \in StyleNameArgs,
       base_url \in BaseUrls, net \in SetNets :
        StyleCalled("sync_node_custom_graphics_size",
                    [new_state |-> new_state, style_name |-> style_name,
                     base_url |-> base_url],
                    sync_node_custom_graphics_size(remote, new_state, style_name, base_url, net))

\* the caller reads the dependencies back right after a successful
\* set_style_dependencies, from the same style and endpoint
ThenGetStyleDependencies ==
    /\ call.fn = "set_style_dependencies"
    /\ prev.fn = "none"
    /\ call.ret[1] = "return"
    /\ \E net \in GetNets :
         LET out == get_style_dependencies(remote, call.arg.style_name,
                                           call.arg.base_url, net)
         IN  /\ call' = [fn |-> "get_style_dependencies",
                         arg |-> [style_name |-> call.arg.style_name,
                                  base_url |-> call.arg.base_url],
                         ret |-> out.ret]
             /\ log' = out.log
             /\ remote' = out.remote
    /\ prev' = call
    /\ UNCHANGED <<network, input>>

\* the caller is done with the result of the last call
Done ==
    /\ call.fn # "none"
    /\ call' = NoCall
    /\ prev' = NoCall
    /\ log' = <<>>
    /\ UNCHANGED <<network, input, remote>>

StyleNext ==
    \/ CallGetStyleDependencies
    \/ CallSetStyleDependencies
    \/ CallMatchArrowColorToEdge
    \/ CallLockNodeDimensions
    \/ CallSyncNodeCustomGraphicsSize
    \/ ThenGetStyleDependencies
    \/ Done

StyleSpec == StyleInit /\ [][StyleNext]_vars

\* ------------------------------------------------------------------------
\* Calls of the validators
\* ------------------------------------------------------------------------
Chars(s) == PyStr(s)

\* values a caller may hand to a validator: colors well and ill formed,
\* numbers at and around the limits of the ranges
VerifyValues ==
    {Chars(<<"#", "F", "F", "0", "0", "F", "F">>), Chars(<<"F", "F", "0", "0", "F", "F", "0">>),
     Chars(<<"#", "F", "F", "F">>), Chars(<<"#", "F", "F", "0", "0", "F", "F", "0">>)}
    \cup {PyInt(n) : n \in {-1, 0, 1, 9, 10, 255, 256}}
    \cup {PyFloat(h) : h \in {1, 4, 19, 511}}

VerifyArgs ==
    {None} \cup VerifyValues \cup {PyList(s) : s \in SeqsUpTo(VerifyValues, MaxLen)}

DimensionNames == {"width", "height"}

VerifyInit ==
    /\ network = EmptyNetwork
    /\ input \in VerifyArgs
    /\ remote = InitRemote
    /\ log = <<>>
    /\ call = NoCall
    /\ prev = NoCall

CallVerifyHexColors == Called("verify_hex_colors", verify_hex_colors(input))

CallVerifyOpacities == Called("verify_opacities", verify_opacities(input))

CallVerifyDimensions ==
    \E dimension \in DimensionNames :
        Called("verify_dimensions", verify_dimensions(dimension, input))

CallVerifySlot == Called("verify_slot", verify_slot(input))

VerifyNext ==
    \/ CallVerifyHexColors
    \/ CallVerifyOpacities
    \/ CallVerifyDimensions
    \/ CallVerifySlot

VerifySpec == VerifyInit /\ [][VerifyNext]_vars

\* ------------------------------------------------------------------------
\* verify_supported_versions.  In this specification `remote` is the version
\* record the running application reports, and `input` the two minimums.
\* Version strings keep their numeric fields apart: 'v2' is <<"v", 2>> and
\* '3.10.0' is <<3, 10, 0>>.  A float that stands for a version is counted
\* in hundredths: 3.6 is 360.
\* ------------------------------------------------------------------------
MaxMinor == 10      \* highest minor version a running application reports

ApiVersionStr(n) == <<"v", n>>
CyVersionStr(major, minor, patch) == <<major, minor, patch>>

\* cytoscape_system.cytoscape_version_info: the record the remote reports
cytoscape_version_info(rem) ==
    [apiVersion |-> rem.apiVersion, cytoscapeVersion |-> rem.cytoscapeVersion]

\* int(re.match('v([0-9]+)$', v_api_str).group(1))
v_api_num(v_api_str) == v_api_str[2]

\* float(re.match('([0-9]+\\.[0-9]+)\\..*$', v_cy_str).group(1)): the text
\* 'major.minor' read as a decimal fraction, the digits of minor being the
\* decimals ('3.6' is 3.6, '3.10' is 3.1)
v_cy_num(v_cy_str) ==
    v_cy_str[1] * 100 + (IF v_cy_str[2] < 10 THEN v_cy_str[2] * 10 ELSE v_cy_str[2])

verify_supported_versions(rem, cyrest, cytoscape) ==
    LET v == cytoscape_version_info(rem)
        api == v_api_num(v.apiVersion)
        cy == v_cy_num(v.cytoscapeVersion)
        nogo1 == IF cyrest > api THEN "CyREST API version" ELSE "None"
        nogo == IF cytoscape > cy THEN "Cytoscape version" ELSE nogo1
    IN  IF nogo # "None" THEN Raise("CyError") ELSE Return(None)

\* what a running application may report
VersionInfos ==
    {[apiVersion |-> ApiVersionStr(n), cytoscapeVersion |-> CyVersionStr(major, minor, 0)] :
        n \in 1..2, major \in 3..4, minor \in 0..MaxMinor}

\* minimums a caller may ask for: cyrest an int, cytoscape a float literal
\* with one decimal (3.0, 3.1, ... 3.9, 4.0)
VersionArgs ==
    [cyrest : 1..2, cytoscape : {300 + 10 * d : d \in 0..10}]

VersionInit ==
    /\ network = EmptyNetwork
    /\ input \in VersionArgs
    /\ remote \in VersionInfos
    /\ log = <<>>
    /\ call = NoCall
    /\ prev = NoCall

CallVerifySupportedVersions ==
    Called("verify_supported_versions",
           verify_supported_versions(remote, input.cyrest, input.cytoscape))

VersionNext == CallVerifySupportedVersions

VersionSpec == VersionInit /\ [][VersionNext]_vars

\* ------------------------------------------------------------------------
\* Properties of the identifier translators
\* ------------------------------------------------------------------------
NameToSuidFns == {"node_name_to_node_suid", "edge_name_to_edge_suid"}
SuidToNameFns == {"node_suid_to_node_name", "edge_suid_to_edge_name"}

\* the table a translator reads
TableOf(fn) ==
    IF fn \in {"node_name_to_node_suid", "node_suid_to_node_name"}
    THEN network.node ELSE network.edge

TableSuids(df) == {PyInt(df[i].suid) : i \in 1..Len(df)}
TableNames(df) == {PyStr(df[i].name) : i \in 1..Len(df)}

\* the SUIDs bound to a name in a table
SuidsOfName(df, name) == {PyInt(df[i].suid) : i \in {j \in 1..Len(df) : PyStr(df[j].name) = name}}

\* the identifiers a translator produces, and those it translates from
TargetDomain(fn) ==
    IF fn \in NameToSuidFns THEN TableSuids(TableOf(fn)) ELSE TableNames(TableOf(fn))
SourceDomain(fn) ==
    IF fn \in NameToSuidFns THEN TableNames(TableOf(fn)) ELSE TableSuids(TableOf(fn))

\* the elements of an argument, a str scalar being a one-element batch
Elems(arg) == IF IsList(arg) THEN arg[2] ELSE <<arg>>

Returned == call.ret[1] = "return"
Failed(e) == call.ret = Raise(e)

\* position i of a name->SUID result is right for the name at position i
RightSuids(df, name, out) ==
    LET S == SuidsOfName(df, name)
    IN  IF Cardinality(S) = 1 THEN out \in S
        ELSE /\ IsList(out)
             /\ Len(out[2]) = Cardinality(S)
             /\ SeqToSet(out[2]) = S

\* C1: name->SUID on a list of names that all occur in the table returns a
\* list of the same length and order whose position i is the single SUID of
\* name i, or the list of all k SUIDs when name i is bound to k > 1 rows.
C1_NameToSuid ==
    ( /\ call.fn \in NameToSuidFns
      /\ IsList(call.arg)
      /\ \A i \in 1..Len(call.arg[2]) : call.arg[2][i] \in TableNames(TableOf(call.fn)) )
    => /\ Returned
       /\ IsList(call.ret[2])
       /\ Len(call.ret[2][2]) = Len(call.arg[2])
       /\ \A i \in 1..Len(call.arg[2]) :
             RightSuids(TableOf(call.fn), call.arg[2][i], call.ret[2][2][i])

\* a node name bound to two SUIDs translated, in a list of two names
C1_Witness ==
    /\ call.fn = "node_name_to_node_suid"
    /\ IsList(call.arg) /\ Len(call.arg[2]) = 2
    /\ Cardinality(SuidsOfName(network.node, call.arg[2][2])) = 2
    /\ Returned
    /\ Len(call.ret[2][2]) = 2
    /\ IsList(call.ret[2][2][2]) /\ Len(call.ret[2][2][2][2]) = 2

\* C2: each of the four translators returns its input list unchanged when
\* every element is already in the target domain of the table (the empty
\* list included).
C2_Identity ==
    ( /\ call.fn \in NameToSuidFns \cup SuidToNameFns
      /\ IsList(call.arg)
      /\ \A i \in 1..Len(call.arg[2]) : call.arg[2][i] \in TargetDomain(call.fn) )
    => call.ret = Return(call.arg)

\* a list of two SUIDs of the edge table passed to edge name->SUID
C2_Witness ==
    /\ call.fn = "edge_name_to_edge_suid"
    /\ IsList(call.arg) /\ Len(call.arg[2]) = 2
    /\ \A i \in 1..2 : call.arg[2][i] \in TableSuids(network.edge)
    /\ call.ret = Return(call.arg)

\* C3: for names bound to exactly one SUID each, name->SUID followed by
\* SUID->name returns the original names (as a list, also for a scalar name).
C3_RoundTrip ==
    ( /\ prev.fn \in NameToSuidFns
      /\ call.fn \in SuidToNameFns
      /\ (IsList(prev.arg) \/ IsStr(prev.arg))
      /\ \A i \in 1..Len(Elems(prev.arg)) :
            Cardinality(SuidsOfName(TableOf(prev.fn), Elems(prev.arg)[i])) = 1 )
    => call.ret = Return(PyList(Elems(prev.arg)))

\* two different node names, each bound to one SUID, taken through both
\* translators
C3_Witness ==
    /\ prev.fn = "node_name_to_node_suid"
    /\ call.fn = "node_suid_to_node_name"
    /\ IsList(prev.arg) /\ Len(prev.arg[2]) = 2
    /\ prev.arg[2][1] # prev.arg[2][2]
    /\ \A i \in 1..2 : Cardinality(SuidsOfName(network.node, prev.arg[2][i])) = 1
    /\ IsList(call.arg) /\ \A i \in 1..2 : IsInt(call.arg[2][i])
    /\ call.ret = Return(prev.arg)

MixedResult(fn, elems) ==
    [i \in 1..Len(elems) |->
        IF elems[i] \in TargetDomain(fn) THEN elems[i]
        ELSE IF fn \in NameToSuidFns
             THEN LET S == SuidsOfName(TableOf(fn), elems[i])
                  IN  IF Cardinality(S) = 1 THEN CHOOSE x \in S : TRUE
                      ELSE PyList(rows_named(TableOf(fn), elems[i]))
             ELSE LET df == TableOf(fn)
                  IN  PyStr(df[CHOOSE j \in 1..Len(df) : PyInt(df[j].suid) = elems[i]].name)]

\* C5: a list mixing valid names and valid SUIDs is returned with only the
\* source-kind identifiers translated and the others passed through.
C5_MixedTranslated ==
    ( /\ call.fn \in NameToSuidFns \cup SuidToNameFns
      /\ IsList(call.arg)
      /\ \A i \in 1..Len(call.arg[2]) :
            call.arg[2][i] \in TargetDomain(call.fn) \cup SourceDomain(call.fn) )
    => call.ret = Return(PyList(MixedResult(call.fn, call.arg[2])))

\* the translator named fn applied to an argument
Translate(fn, net, arg) ==
    CASE fn = "node_name_to_node_suid" -> node_name_to_node_suid(net, arg)
      [] fn = "node_suid_to_node_name" -> node_suid_to_node_name(net, arg)
      [] fn = "edge_name_to_edge_suid" -> edge_name_to_edge_suid(net, arg)
      [] fn = "edge_suid_to_edge_name" -> edge_suid_to_edge_name(net, arg)

\* C6: a scalar identifier (a str name or a numeric SUID) is translated as
\* the one-element list containing it, and None is returned for None.
C6_ScalarAsList ==
    /\ ( call.fn \in NameToSuidFns \cup SuidToNameFns /\ (IsStr(call.arg) \/ IsInt(call.arg)) )
       => /\ call.ret = Translate(call.fn, network, PyList(<<call.arg>>))
          /\ call.arg \in SourceDomain(call.fn)
                => Returned /\ IsList(call.ret[2]) /\ Len(call.ret[2][2]) = 1
    /\ ( call.fn \in NameToSuidFns \cup SuidToNameFns /\ IsNone(call.arg) )
       => call.ret = Return(None)

\* ------------------------------------------------------------------------
\* Properties of the style dependency accessors
\* ------------------------------------------------------------------------
StyleFns == {"get_style_dependencies", "set_style_dependencies"}

\* positions in the log of the last call's requests of one kind
Lookups == {i \in 1..Len(log) : log[i].verb = "GET" /\ log[i].path = <<"styles">>}
Reads == {i \in 1..Len(log) : log[i].verb = "GET" /\ log[i].path # <<"styles">>}
Writes == {i \in 1..Len(log) : log[i].verb = "PUT"}
Reapplies == {i \in 1..Len(log) : log[i].verb = "POST"}

\* C7: get_style_dependencies and set_style_dependencies called with a style
\* name the remote does not know fail after the style-name lookup only, with
\* CyError once the lookup was answered: no dependencies read, no write and
\* no reapply-styles command is issued in that call.
C7_UnknownStyleFailsFirst ==
    ( /\ call.fn \in StyleFns
      /\ call.arg.style_name \notin DOMAIN remote[call.arg.base_url] )
    => /\ call.ret[1] = "raise"
       /\ Lookups = {1} /\ Len(log) = 1
       /\ Reads = {} /\ Writes = {} /\ Reapplies = {}
       /\ (log[1].ok => Failed("CyError"))

\* set_style_dependencies on a style the endpoint does not know, the lookup
\* answered
C7_Witness ==
    /\ call.fn = "set_style_dependencies"
    /\ call.arg.style_name = BogusStyle
    /\ call.arg.base_url = OtherBaseUrl
    /\ Len(call.arg.dependencies) > 0
    /\ Len(log) = 1 /\ log[1].ok
    /\ Failed("CyError")

\* C8: a set_style_dependencies call that returns has issued exactly one
\* write request, with one record per entry of the mapping, then exactly one
\* reapply-styles command for the same style, and returns the result of the
\* reapply command, not of the write.
C8_WriteThenReapply ==
    ( call.fn = "set_style_dependencies" /\ Returned )
    => /\ Cardinality(Writes) = 1 /\ Cardinality(Reapplies) = 1
       /\ \A w \in Writes, r \in Reapplies :
            /\ w < r
            /\ log[w].path = <<"styles", call.arg.style_name, "dependencies">>
            /\ Len(log[w].body) = Len(call.arg.dependencies)
            /\ \A i \in 1..Len(call.arg.dependencies) :
                  /\ log[w].body[i].visualPropertyDependency = call.arg.dependencies[i][1]
                  /\ log[w].body[i].enabled = call.arg.dependencies[i][2]
            /\ log[r].path = <<"vizmap apply styles", call.arg.style_name>>
            /\ call.ret = Return(ViewsResponse(log[r].path))
       /\ call.ret # Return(PutResponse)

\* a returned call that set two dependencies
C8_Witness ==
    /\ call.fn = "set_style_dependencies"
    /\ Len(call.arg.dependencies) = 2
    /\ Returned
    /\ Len(log) = 3 /\ Len(log[2].body) = 2

\* a step that is a call of set_style_dependencies
SetCallStep == call.fn = "none" /\ call'.fn = "set_style_dependencies"

\* C9 as stated: a failing set_style_dependencies leaves the remote flags as
\* they were, and changed flags mean the call returned a result.
C9_NoPartialSuccess ==
    [][ SetCallStep =>
          /\ (call'.ret[1] = "raise" => remote' = remote)
          /\ (remote' # remote => call'.ret[1] = "return") ]_vars

\* the flags a served write leaves: the entries of the mapping, the other
\* dependencies as before
FlagsAfter(flags, dependencies) ==
    [dep \in DOMAIN flags |->
        IF \E i \in 1..Len(dependencies) : dependencies[i][1] = dep
        THEN LET i == CHOOSE j \in 1..Len(dependencies) : dependencies[j][1] = dep
             IN  dependencies[i][2][2]
        ELSE flags[dep]]

\* C9, amended: a set_style_dependencies call whose write request was not
\* served (unknown style, failed lookup or failed write) leaves every flag as
\* it was; a served write changes the flags of the named style at base_url
\* only, to the mapping's values, also when the reapply-styles command then
\* fails and the call raises.
C9_WriteDecides ==
    [][ SetCallStep =>
          LET served == \E i \in 1..Len(log') : log'[i].verb = "PUT" /\ log'[i].ok
              a == call'.arg
          IN  /\ (~ served => remote' = remote /\ call'.ret[1] = "raise")
              /\ served =>
                    /\ a.style_name \in DOMAIN remote[a.base_url]
                    /\ remote' = [remote EXCEPT ![a.base_url][a.style_name] =
                                      FlagsAfter(@, a.dependencies)] ]_vars

\* the write was served, the reapply-styles command failed and the call
\* raised, the written flag in place
C9_Witness ==
    /\ call.fn = "set_style_dependencies"
    /\ call.ret[1] = "raise"
    /\ Len(log) = 3 /\ log[2].verb = "PUT" /\ log[2].ok /\ ~ log[3].ok
    /\ call.arg.base_url = OtherBaseUrl
    /\ call.arg.dependencies = <<<<"arrowColorMatchesEdge", PyBool(TRUE)>>>>
    /\ remote[OtherBaseUrl][call.arg.style_name]["arrowColorMatchesEdge"]
    /\ ~ remote[DEFAULT_BASE_URL][call.arg.style_name]["arrowColorMatchesEdge"]

\* ------------------------------------------------------------------------
\* Properties of the validators
\* ------------------------------------------------------------------------
VerifyFns == {"verify_hex_colors", "verify_opacities", "verify_dimensions", "verify_slot"}

\* C10 as stated: each of the four validators returns without error when
\* given None.
C10_NoneAccepted ==
    ( call.fn \in VerifyFns /\ IsNone(call.arg) ) => call.ret = Return(None)

\* C10, amended: verify_hex_colors, verify_opacities and verify_dimensions
\* return without error when given None; verify_slot raises CyError.
C10_NoneAcceptedButSlot ==
    /\ ( call.fn \in VerifyFns \ {"verify_slot"} /\ IsNone(call.arg) )
       => call.ret = Return(None)
    /\ ( call.fn = "verify_slot" /\ IsNone(call.arg) ) => Failed("CyError")

\* verify_opacities called with None
C10_Witness ==
    /\ call.fn = "verify_opacities"
    /\ IsNone(call.arg)
    /\ call.ret = Return(None)

\* the domain of each validator
InDomain(fn, v) ==
    CASE fn = "verify_hex_colors" -> IsStr(v) /\ Len(v[2]) = 7 /\ v[2][1] = "#"
      [] fn = "verify_opacities" -> (IsInt(v) \/ IsFloat(v)) /\ 0 <= Halves(v) /\ Halves(v) <= 510
      [] fn = "verify_dimensions" -> IsInt(v) \/ IsFloat(v)
      [] fn = "verify_slot" -> (IsInt(v) \/ IsFloat(v)) /\ 2 <= Halves(v) /\ Halves(v) <= 18

\* the elements of a validator's argument, a scalar being one element
Elements(arg) == IF IsList(arg) THEN arg[2] ELSE <<arg>>

AllInDomain(fn, arg) == \A i \in 1..Len(Elements(arg)) : InDomain(fn, Elements(arg)[i])

\* the first element of an argument that is outside the domain
FirstOutside(fn, arg) ==
    Elements(arg)[CHOOSE i \in 1..Len(Elements(arg)) :
                    /\ ~ InDomain(fn, Elements(arg)[i])
                    /\ \A j \in 1..(i-1) : InDomain(fn, Elements(arg)[j])]

SpecificSetters ==
    {"match_arrow_color_to_edge", "lock_node_dimensions", "sync_node_custom_graphics_size"}

SetterKey(fn) ==
    CASE fn = "match_arrow_color_to_edge" -> "arrowColorMatchesEdge"
      [] fn = "lock_node_dimensions" -> "nodeSizeLocked"
      [] fn = "sync_node_custom_graphics_size" -> "nodeCustomGraphicsSizeSync"

\* C13: a call of a specific setter with the flag s is a call of
\* set_style_dependencies with the one-entry mapping from the setter's key to
\* the boolean s: the same requests in the same order, the same write body
\* ('enabled' is the boolean s), the same result, the same failure on an
\* unknown style and the same state of the remote.
C13_SetterIsGenericSetter ==
    [][ (call.fn = "none" /\ call'.fn \in SpecificSetters)
        => \E net \in SetNets :
             LET out == set_style_dependencies(
                            remote, call'.arg.style_name,
                            <<<<SetterKey(call'.fn), PyBool(call'.arg.new_state)>>>>,
                            call'.arg.base_url, net)
             IN  /\ call'.ret = out.ret
                 /\ log' = out.log
                 /\ remote' = out.remote ]_vars

\* the generic setter and the three specific ones
SetterFns == {"set_style_dependencies"} \cup SpecificSetters

\* C14: when a setter is called with a base_url other than the default, every
\* request of the call (the style-name lookup, the dependencies write and the
\* reapply-styles command) is sent to that base_url and none to the default
\* endpoint.
C14_AllRequestsToBaseUrl ==
    ( call.fn \in SetterFns /\ call.arg.base_url # DEFAULT_BASE_URL )
    => \A i \in 1..Len(log) : log[i].url = call.arg.base_url

\* the list of records the remote answers to the read of the last call
ReadResponse ==
    cyrest_get(remote, dependencies_path(call.arg.style_name), call.arg.base_url)

\* C15: for a known style get_style_dependencies issues one read request
\* and returns a flat mapping whose keys are exactly the dependency names of
\* the remote's list of records and whose value for each name is that
\* record's 'enabled' flag; called right after a successful
\* set_style_dependencies on the same style and endpoint, it returns for
\* every key that was set the value that was set.
C15_GetReturnsFlags ==
    /\ ( /\ call.fn = "get_style_dependencies"
         /\ call.arg.style_name \in DOMAIN remote[call.arg.base_url]
         /\ log[1].ok )
       => Cardinality(Reads) = 1 /\ Len(log) = 2
    /\ ( call.fn = "get_style_dependencies" /\ Returned )
       => /\ call.ret[2][1] = "dict"
          /\ DOMAIN call.ret[2][2] =
                {ReadResponse[i].visualPropertyDependency : i \in DOMAIN ReadResponse}
          /\ \A i \in DOMAIN ReadResponse :
                call.ret[2][2][ReadResponse[i].visualPropertyDependency] = ReadResponse[i].enabled
          /\ prev.fn = "set_style_dependencies"
                => \A i \in 1..Len(prev.arg.dependencies) :
                      call.ret[2][2][prev.arg.dependencies[i][1]] = prev.arg.dependencies[i][2]

\* the dependencies read back from the other endpoint right after two of them
\* were set there, one to a value it did not have
C15_Witness ==
    /\ prev.fn = "set_style_dependencies"
    /\ prev.arg.base_url = OtherBaseUrl
    /\ prev.arg.dependencies =
          <<<<"nodeSizeLocked", PyBool(TRUE)>>, <<"arrowColorMatchesEdge", PyBool(FALSE)>>>>
    /\ call.fn = "get_style_dependencies"
    /\ Returned
    /\ call.ret[2][2]["nodeSizeLocked"] = PyBool(TRUE)
    /\ Cardinality(Reads) = 1

\* ------------------------------------------------------------------------
\* Properties of the version check
\* ------------------------------------------------------------------------
\* the major and minor fields of a minimum given as a one-decimal float
MinMajor(cytoscape) == cytoscape \div 100
MinMinor(cytoscape) == (cytoscape % 100) \div 10

\* version major.minor is lower than the minimum: major first, then minor
VersionLower(major, minor, minMajor, minMinor) ==
    major < minMajor \/ (major = minMajor /\ minor < minMinor)

\* the running version is below one of the minimums the caller asked for
Unsupported ==
    \/ remote.apiVersion[2] < call.arg.cyrest
    \/ VersionLower(remote.cytoscapeVersion[1], remote.cytoscapeVersion[2],
                    MinMajor(call.arg.cytoscape), MinMinor(call.arg.cytoscape))

\* C12 as stated: verify_supported_versions raises CyError exactly when the
\* running API version is lower than cyrest or the running Cytoscape
\* major.minor is lower than the minimum (major compared first, then minor as
\* a number), and returns without error otherwise.
C12_RaisesIffLower ==
    call.fn = "verify_supported_versions"
    => IF Unsupported THEN Failed("CyError") ELSE call.ret = Return(None)

====
